---- MODULE Spec2Model ----
(***************************************************************************)
(* Model of avocado/utils/configure_network.py (NetworkInterface, Host)    *)
(* and avocado/utils/disk.py (get_disks, get_partition_info).              *)
(*                                                                         *)
(* Python strings that the code parses are sequences of one-character      *)
(* strings; a call's outcome is a record [kind, exc] with kind "return" or *)
(* "raise" and exc the exception class.                                    *)
(***************************************************************************)
EXTENDS Integers, Sequences, FiniteSets, TLC

VARIABLES
    distro,   \* distro.detect().name
    fs,       \* the interface's config files and their backups
    env,      \* what the commands and pseudo-files of the host answer
    last,     \* the most recent call: arguments, effects, outcome
    prev,     \* the call before it
    ncalls    \* number of set_ip / unset_ip calls made

vars == <<distro, fs, env, last, prev, ncalls>>

----------------------------------------------------------------------------
(* Bounds *)

\* number of set_ip / unset_ip calls made in one behaviour
MaxCalls == 3

----------------------------------------------------------------------------
(* Python values and outcomes *)

PyNone == "<None>"

PyFalse == "<False>"

PyTrue == "<True>"

Return == [kind |-> "return", exc |-> "-"]

\* return v
Ret(v) == [kind |-> "return", exc |-> "-", val |-> v]

Raise(e) == [kind |-> "raise", exc |-> e]

\* str(x), as the %s conversion applies it
Str(x) == IF x = PyNone THEN "None" ELSE x

\* truth value of a str-or-None
Truthy(x) == x # PyNone /\ x # ""

----------------------------------------------------------------------------
(* The configuration files *)

\* what a path holds: no file, or a file with its lines
NoFile == [exists |-> FALSE, lines |-> <<>>]

File(l) == [exists |-> TRUE, lines |-> l]

\* self.name
name == "eth0"

DistroNames == {"rhel", "SuSE", "debian"}

RhelFmt == "/etc/sysconfig/network-scripts/ifcfg-%s"

SuseFmt == "/etc/sysconfig/network/ifcfg-%s"

\* a path is <<format, interface name, suffix>>
ConfFile(fmt) == <<fmt, name, "">>

\* "%s.backup" % conf_file
Backup(p) == <<p[1], p[2], ".backup">>

Paths == {ConfFile(RhelFmt), Backup(ConfFile(RhelFmt)),
          ConfFile(SuseFmt), Backup(ConfFile(SuseFmt))}

\* a line of a config file: the text key=value followed by end
Line(k, v, e) == [key |-> k, val |-> v, end |-> e]

\* contents a config file may hold before the first call
OldA == File(<< Line("BOOTPROTO", <<"dhcp">>, "\n") >>)

OldB == File(<< Line("IPADDR", <<"192.168.0.9">>, "\n") >>)

OldContents == {OldA, OldB}

IpAddrs == {"10.0.0.1", "10.0.0.2"}

Netmasks == {"255.255.255.0"}

InterfaceTypes == {PyNone, "", "Bridge"}

----------------------------------------------------------------------------
(* process.system: runs the command; a non-zero exit status raises CmdError *)

process_system(ok) == IF ok THEN Return ELSE Raise("CmdError")

\* bring_up: CmdError is wrapped into NWException
bring_up(ok) ==
    LET r == process_system(ok)
    IN  IF r.kind = "raise" /\ r.exc = "CmdError" THEN Raise("NWException") ELSE r

\* bring_down: any Exception is wrapped into NWException
bring_down(ok) ==
    LET r == process_system(ok)
    IN  IF r.kind = "raise" THEN Raise("NWException") ELSE r

\* the run of a method: the files, the commands and file operations done so
\* far, and the outcome so far
Start(f) == [fs |-> f, log |-> <<>>, out |-> Return]

\* self.bring_up() as a step of a method
DoBringUp(s, ok) == [s EXCEPT !.log = Append(@, "ifup"), !.out = bring_up(ok)]

\* self.bring_down() as a step of a method
DoBringDown(s, ok) == [s EXCEPT !.log = Append(@, "ifdown"), !.out = bring_down(ok)]

\* a mutant of _move_config_file: copies src and leaves it in place
MoveKeepsSource(s, src, dest) ==
    IF s.fs[src].exists
    THEN [s EXCEPT !.fs = [@ EXCEPT ![dest] = s.fs[src]],
                   !.log = Append(@, "move")]
    ELSE [s EXCEPT !.out = Raise("NWException")]

\* _move_config_file: shutil.move renames src to dest (replacing dest) when
\* src exists, else NWException; a file moved onto itself stays in place
_move_config_file(s, src, dest) ==
    IF s.fs[src].exists
    THEN [s EXCEPT !.fs = [@ EXCEPT ![src] = NoFile, ![dest] = s.fs[src]],
                   !.log = Append(@, "move")]
    ELSE [s EXCEPT !.out = Raise("NWException")]

\* with open(conf_file, "w") as network_conf: network_conf.write(...) ...
WriteConf(s, conf_file, lines) ==
    [s EXCEPT !.fs = [@ EXCEPT ![conf_file] = File(lines)],
              !.log = Append(@, "write")]

\* a mutant of RhelLines: IPADDR and NETMASK take each other's argument
RhelLinesSwapped(ipaddr, netmask, interface_type) ==
    LET ty == IF Truthy(interface_type) THEN "Ethernet" ELSE interface_type
    IN  << Line("TYPE", <<Str(ty)>>, " \n"),
           Line("BOOTPROTO", <<"none">>, " \n"),
           Line("NAME", <<name>>, " \n"),
           Line("DEVICE", <<name>>, " \n"),
           Line("ONBOOT", <<"yes">>, " \n"),
           Line("IPADDR", <<netmask>>, " \n"),
           Line("NETMASK", <<ipaddr>>, " \n"),
           Line("IPV6INIT", <<"yes">>, " \n"),
           Line("IPV6_AUTOCONF", <<"yes">>, " \n"),
           Line("IPV6_DEFROUTE", <<"yes">>, "") >>

\* the lines set_ip writes for the rhel family
RhelLines(ipaddr, netmask, interface_type) ==
    LET ty == IF Truthy(interface_type) THEN "Ethernet" ELSE interface_type
    IN  << Line("TYPE", <<Str(ty)>>, " \n"),
           Line("BOOTPROTO", <<"none">>, " \n"),
           Line("NAME", <<name>>, " \n"),
           Line("DEVICE", <<name>>, " \n"),
           Line("ONBOOT", <<"yes">>, " \n"),
           Line("IPADDR", <<ipaddr>>, " \n"),
           Line("NETMASK", <<netmask>>, " \n"),
           Line("IPV6INIT", <<"yes">>, " \n"),
           Line("IPV6_AUTOCONF", <<"yes">>, " \n"),
           Line("IPV6_DEFROUTE", <<"yes">>, "") >>

\* the lines set_ip writes for the SuSE family
SuseLines(ipaddr, netmask) ==
    << Line("IPADDR", <<ipaddr>>, " \n"),
       Line("NETMASK", <<"'", netmask, "'">>, " \n"),
       Line("IPV6INIT", <<"yes">>, " \n"),
       Line("IPV6_AUTOCONF", <<"yes">>, " \n"),
       Line("IPV6_DEFROUTE", <<"yes">>, "") >>

\* a mutant of SetIpOn: the new file is written whether or not the old one
\* could be moved away
SetIpOnWritesFirst(s, conf_file, lines, ifupOk) ==
    LET wr == WriteConf(s, conf_file, lines)
        mv == _move_config_file(wr, conf_file, Backup(conf_file))
    IN  IF mv.out.kind = "raise" THEN mv ELSE DoBringUp(mv, ifupOk)

\* one family's branch of set_ip followed by bring_up: move the config file
\* to its backup, write the new file, ifup
SetIpOn(s, conf_file, lines, ifupOk) ==
    LET mv == _move_config_file(s, conf_file, Backup(conf_file))
    IN  IF mv.out.kind = "raise"
        THEN mv
        ELSE DoBringUp(WriteConf(mv, conf_file, lines), ifupOk)

set_ip(f, d, ipaddr, netmask, interface_type, ifupOk) ==
    IF d = "rhel"
    THEN SetIpOn(Start(f), ConfFile(RhelFmt),
                 RhelLines(ipaddr, netmask, interface_type), ifupOk)
    ELSE IF d = "SuSE"
    THEN SetIpOn(Start(f), ConfFile(SuseFmt), SuseLines(ipaddr, netmask), ifupOk)
    ELSE [Start(f) EXCEPT !.out = Raise("NWException")]

\* a mutant of unset_ip: the backup is restored before the interface is
\* brought down
UnsetIpMovesFirst(f, d, ifdownOk) ==
    LET conf_file == IF d = "SuSE" THEN ConfFile(SuseFmt) ELSE ConfFile(RhelFmt)
        mv == IF d \in {"rhel", "SuSE"}
              THEN _move_config_file(Start(f), Backup(conf_file), conf_file)
              ELSE [Start(f) EXCEPT !.out = Raise("UnboundLocalError")]
    IN  IF mv.out.kind = "raise" THEN mv ELSE DoBringDown(mv, ifdownOk)

\* unset_ip: conf_file is assigned only under rhel and under SuSE; bring_down
\* runs, and only then is "%s.backup" % conf_file evaluated and moved
unset_ip(f, d, ifdownOk) ==
    LET conf_file == IF d = "SuSE" THEN ConfFile(SuseFmt) ELSE ConfFile(RhelFmt)
        dn == DoBringDown(Start(f), ifdownOk)
    IN  IF dn.out.kind = "raise"
        THEN dn
        ELSE IF d \notin {"rhel", "SuSE"}
        THEN [dn EXCEPT !.out = Raise("UnboundLocalError")]
        ELSE _move_config_file(dn, Backup(conf_file), conf_file)

----------------------------------------------------------------------------
(* The network-configuration state machine *)

NoCall == [op |-> "none"]

NoEnv == [host |-> "local"]

Call(o, r, ip, nm, ty, cmdOk) ==
    [op |-> o, pre |-> fs, post |-> r.fs, log |-> r.log, out |-> r.out,
     ipaddr |-> ip, netmask |-> nm, interface_type |-> ty, cmdOk |-> cmdOk]

InitNet ==
    /\ distro \in DistroNames
    /\ fs \in [Paths -> OldContents \cup {NoFile}]
    /\ env = NoEnv
    /\ last = NoCall
    /\ prev = NoCall
    /\ ncalls = 0

SetIp ==
    /\ ncalls < MaxCalls
    /\ \E ip \in IpAddrs, nm \in Netmasks, ty \in InterfaceTypes, ok \in BOOLEAN :
          LET r == set_ip(fs, distro, ip, nm, ty, ok)
          IN  /\ fs' = r.fs
              /\ last' = Call("set_ip", r, ip, nm, ty, ok)
    /\ prev' = last
    /\ ncalls' = ncalls + 1
    /\ UNCHANGED <<distro, env>>

UnsetIp ==
    /\ ncalls < MaxCalls
    /\ \E ok \in BOOLEAN :
          LET r == unset_ip(fs, distro, ok)
          IN  /\ fs' = r.fs
              /\ last' = Call("unset_ip", r, "-", "-", "-", ok)
    /\ prev' = last
    /\ ncalls' = ncalls + 1
    /\ UNCHANGED <<distro, env>>

NextNet == SetIp \/ UnsetIp

SpecNet == InitNet /\ [][NextNet]_vars

----------------------------------------------------------------------------
(* Properties of set_ip and unset_ip *)

Supported == distro \in {"rhel", "SuSE"}

\* the active config path of the detected family, and its backup
Active == IF distro = "SuSE" THEN ConfFile(SuseFmt) ELSE ConfFile(RhelFmt)

Bak == Backup(Active)

Returned(c) == c.op # "none" /\ c.out.kind = "return"

Raised(c) == c.op # "none" /\ c.out.kind = "raise"

\* the calls prev and last are o1 then o2, both returning normally
Pair(o1, o2) ==
    /\ Supported
    /\ prev.op = o1 /\ Returned(prev)
    /\ last.op = o2 /\ Returned(last)

\* e1 and e2 both occur in the log, e1 earlier
Before(log, e1, e2) ==
    \E i, j \in 1..Len(log) : i < j /\ log[i] = e1 /\ log[j] = e2

Range(q) == {q[i] : i \in 1..Len(q)}

Keys(f) == [i \in 1..Len(f.lines) |-> f.lines[i].key]

\* the value text of the line with key k
Value(f, k) == f.lines[CHOOSE i \in 1..Len(f.lines) : f.lines[i].key = k].val

Ipv6Fields(f) ==
    /\ Value(f, "IPV6INIT") = <<"yes">>
    /\ Value(f, "IPV6_AUTOCONF") = <<"yes">>
    /\ Value(f, "IPV6_DEFROUTE") = <<"yes">>

\* C1 as stated: after unset_ip then set_ip, or set_ip then unset_ip, both
\* returning normally on rhel or SuSE, every file content stored at the
\* active or the backup path before the pair is stored at one of the two
\* paths after it.
C1_NoDataLoss ==
    (Pair("set_ip", "unset_ip") \/ Pair("unset_ip", "set_ip")) =>
        \A p \in {Active, Bak} :
            prev.pre[p].exists =>
                \E q \in {Active, Bak} : last.post[q] = prev.pre[p]

\* C1 amended: the pair round-trips the file its first call moves.  After
\* set_ip then unset_ip the active path holds what it held before the pair
\* and the backup path holds no file; after unset_ip then set_ip the backup
\* path holds what it held before the pair and the active path holds the
\* file set_ip wrote.
C1_RoundTrip ==
    /\ Pair("set_ip", "unset_ip") =>
          /\ last.post[Active] = prev.pre[Active]
          /\ ~last.post[Bak].exists
    /\ Pair("unset_ip", "set_ip") =>
          /\ last.post[Bak] = prev.pre[Bak]
          /\ last.post[Active].exists
          /\ Value(last.post[Active], "IPADDR") = <<last.ipaddr>>

C1_Witness ==
    /\ Pair("set_ip", "unset_ip")
    /\ prev.pre[Active] = OldA
    /\ fs[Active] = OldA

\* C2: a set_ip call that returns normally ran on rhel or SuSE, leaves the
\* active config holding exactly the family's fields in order (rhel: TYPE,
\* which is Ethernet for a truthy interface_type and str(interface_type) for
\* None or '', BOOTPROTO=none, NAME, DEVICE, ONBOOT=yes, IPADDR, NETMASK,
\* IPv6 fields;
\* SuSE: IPADDR, NETMASK, IPv6 fields) with IPADDR and NETMASK from the
\* call, leaves the backup path holding what the active config held before
\* the call, and issued ifup after the file was written.
C2_SetIpTemplate ==
    (last.op = "set_ip" /\ Returned(last)) =>
        /\ Supported
        /\ fs[Active].exists
        /\ distro = "rhel" =>
              /\ Keys(fs[Active]) =
                    <<"TYPE", "BOOTPROTO", "NAME", "DEVICE", "ONBOOT", "IPADDR",
                      "NETMASK", "IPV6INIT", "IPV6_AUTOCONF", "IPV6_DEFROUTE">>
              /\ Value(fs[Active], "TYPE") =
                    IF last.interface_type \in {PyNone, ""}
                    THEN <<Str(last.interface_type)>>
                    ELSE <<"Ethernet">>
              /\ Value(fs[Active], "BOOTPROTO") = <<"none">>
              /\ Value(fs[Active], "NAME") = <<name>>
              /\ Value(fs[Active], "DEVICE") = <<name>>
              /\ Value(fs[Active], "ONBOOT") = <<"yes">>
              /\ Value(fs[Active], "IPADDR") = <<last.ipaddr>>
              /\ Value(fs[Active], "NETMASK") = <<last.netmask>>
        /\ distro = "SuSE" =>
              /\ Keys(fs[Active]) =
                    <<"IPADDR", "NETMASK", "IPV6INIT", "IPV6_AUTOCONF",
                      "IPV6_DEFROUTE">>
              /\ Value(fs[Active], "IPADDR") = <<last.ipaddr>>
              /\ Value(fs[Active], "NETMASK") = <<"'", last.netmask, "'">>
        /\ Ipv6Fields(fs[Active])
        /\ fs[Bak] = last.pre[Active]
        /\ fs[Bak].exists
        /\ Before(last.log, "write", "ifup")
        /\ Before(last.log, "move", "write")

C2_Witness ==
    /\ last.op = "set_ip" /\ Returned(last)
    /\ distro = "SuSE"
    /\ last.pre[Active] = OldA
    /\ last.pre[Bak] = OldB
    /\ last.ipaddr = "10.0.0.2"

\* C3: every failure of set_ip and of unset_ip is an NWException: the call
\* raises NWException when the distribution is neither rhel nor SuSE, when
\* the config file (set_ip) or the backup file (unset_ip) does not exist,
\* and when ifup or ifdown exits non-zero; and it raises nothing else.
C3_FailuresAreNWException ==
    /\ Raised(last) => last.out.exc = "NWException"
    /\ (last.op # "none" /\ ~Supported) => last.out = Raise("NWException")
    /\ (last.op = "set_ip" /\ Supported /\ ~last.pre[Active].exists) =>
          last.out = Raise("NWException")
    /\ (last.op = "unset_ip" /\ Supported /\ ~last.pre[Bak].exists) =>
          last.out = Raise("NWException")
    /\ (last.op = "unset_ip" /\ ~last.cmdOk) => last.out = Raise("NWException")
    /\ (last.op = "set_ip" /\ "ifup" \in Range(last.log) /\ ~last.cmdOk) =>
          last.out = Raise("NWException")

\* C4: unset_ip on rhel or SuSE issues ifdown before any file is moved; a
\* failing ifdown raises and leaves the active config and the backup as
\* they were; after a normal return the active path holds what the backup
\* path held and the backup path holds no file.
C4_UnsetIpOrder ==
    (last.op = "unset_ip" /\ Supported) =>
        /\ Len(last.log) >= 1 /\ last.log[1] = "ifdown"
        /\ "move" \in Range(last.log) => Before(last.log, "ifdown", "move")
        /\ ~last.cmdOk =>
              /\ Raised(last)
              /\ last.post = last.pre
              /\ "move" \notin Range(last.log)
        /\ Returned(last) =>
              /\ last.pre[Bak].exists
              /\ fs[Active] = last.pre[Bak]
              /\ ~fs[Bak].exists

C4_Witness ==
    /\ last.op = "unset_ip" /\ Supported /\ Returned(last)
    /\ last.pre[Active] = OldA
    /\ last.pre[Bak] = OldB
    /\ fs[Active] = OldB

\* C10 as stated: whenever set_ip raises, the active config file and the
\* backup file are as they were before the call.
C10_AllOrNothing ==
    (last.op = "set_ip" /\ Raised(last)) => last.post = last.pre

\* C10 amended: when set_ip raises because the distribution is unsupported
\* or the config file is missing, the files are as they were before the
\* call; when it raises because ifup failed, the backup path holds what the
\* active config held before the call and the active path holds the newly
\* written file.
C10_RaiseEffect ==
    (last.op = "set_ip" /\ Raised(last)) =>
        /\ (~Supported \/ ~last.pre[Active].exists) =>
              /\ last.post = last.pre
              /\ last.log = <<>>
        /\ (Supported /\ last.pre[Active].exists) =>
              /\ ~last.cmdOk
              /\ last.post[Bak] = last.pre[Active]
              /\ last.post[Active].exists
              /\ Value(last.post[Active], "IPADDR") = <<last.ipaddr>>
              /\ \A p \in Paths \ {Active, Bak} : last.post[p] = last.pre[p]

C10_WitnessIfupFails ==
    /\ last.op = "set_ip" /\ Raised(last)
    /\ Supported
    /\ last.pre[Active] = OldA
    /\ ~last.cmdOk

----------------------------------------------------------------------------
(* Link status and MTU *)

\* number of times wait_for calls its predicate before the timeout
MaxPolls == 2

\* the attributes a NetworkInterface has: those __init__ sets and the
\* methods of the class
Attrs == {"name", "remote_session", "set_ip", "unset_ip", "ping_check",
          "set_mtu", "get_link_status", "is_link_up", "bring_up",
          "bring_down", "_move_config_file", "get_hwaddr", "set_hwaddr",
          "add_hwaddr", "remove_hwaddr", "_get_interfce_details",
          "get_ip_address", "get_inet_detail"}

\* genio.read_file: the whole content of the file
read_file(content) == Ret(content)

\* get_link_status: the remote branch reads self.session
get_link_status(remote_session, operstate) ==
    IF Truthy(remote_session)
    THEN IF "session" \in Attrs THEN Ret(operstate) ELSE Raise("AttributeError")
    ELSE read_file(operstate)

\* self.<method>() for the methods is_link_up may call
CallSelf(method, remote_session, operstate) ==
    IF method \notin Attrs
    THEN Raise("AttributeError")
    ELSE get_link_status(remote_session, operstate)

\* is_link_up called with the positional arguments args (besides self)
is_link_up(args, remote_session, operstate) ==
    IF Len(args) # 0
    THEN Raise("TypeError")
    ELSE LET st == CallSelf("get_link_state", remote_session, operstate)
         IN  IF st.kind = "raise"
             THEN st
             ELSE IF st.val \in {"up", "UP"} THEN Ret(PyTrue) ELSE Ret(PyFalse)

\* wait.wait_for(func, timeout, args): calls func(*args) until it is true or
\* the timeout elapses; polls[i] is the outcome of the i-th call.  Returns the
\* first true output, None on timeout; an exception of func propagates.
wait_for(polls) ==
    LET stop(i) == polls[i].kind = "raise" \/ polls[i].val = PyTrue
    IN  IF \E i \in 1..Len(polls) : stop(i)
        THEN polls[CHOOSE i \in 1..Len(polls) :
                       stop(i) /\ \A j \in 1..(i - 1) : ~stop(j)]
        ELSE Ret(PyNone)

\* Python's `sub in s` on strings
Contains(sub, s) ==
    \E i \in 0..(Len(s) - Len(sub)) : SubSeq(s, i + 1, i + Len(sub)) = sub

\* the command of set_mtu run locally (process.system, process.system_output)
\* or through the session (remote_session.cmd): it returns or raises
run_cmd(ok) == IF ok THEN Return ELSE Raise("CmdError")

set_mtu(mtu, remote_session, operstates, setOk, showOk, mtu_value) ==
    LET polls == [i \in 1..Len(operstates) |->
                     is_link_up(<<name>>, remote_session, operstates[i])]
        body ==
            IF run_cmd(setOk).kind = "raise" THEN run_cmd(setOk)
            ELSE IF run_cmd(showOk).kind = "raise" THEN run_cmd(showOk)
            ELSE IF ~Contains(mtu, mtu_value) THEN Ret(PyFalse)
            ELSE LET w == wait_for(polls)
                 IN  IF w.kind = "raise" THEN w
                     ELSE IF w.val = PyTrue THEN Ret(PyTrue) ELSE Ret(PyFalse)
    IN  IF body.kind = "raise" THEN Ret(PyFalse) ELSE body

Sessions == {PyNone, "session"}

OperStates == {"up", "UP", "down", "unknown"}

Mtus == {<<"1", "5", "0", "0">>, <<"9", "0", "0", "0">>}

\* what `ip add show <name>` prints, as far as the mtu goes
MtuOutputs == {<<"m", "t", "u", " ", "1", "5", "0", "0", " ">>,
               <<"m", "t", "u", " ", "9", "0", "0", "0", " ">>}

InitLink ==
    /\ distro = "rhel"
    /\ fs = [p \in Paths |-> NoFile]
    /\ env \in [remote_session : Sessions,
                operstates : [1..MaxPolls -> OperStates]]
    /\ last = NoCall
    /\ prev = NoCall
    /\ ncalls = 0

IsLinkUp ==
    /\ last' = [op |-> "is_link_up",
                out |-> is_link_up(<<>>, env.remote_session, env.operstates[1])]
    /\ UNCHANGED <<distro, fs, env, prev, ncalls>>

SetMtu ==
    /\ \E mtu \in Mtus, setOk \in BOOLEAN, showOk \in BOOLEAN,
          mtu_value \in MtuOutputs :
          last' = [op |-> "set_mtu", mtu |-> mtu, setOk |-> setOk,
                   showOk |-> showOk, mtu_value |-> mtu_value,
                   out |-> set_mtu(mtu, env.remote_session, env.operstates,
                                   setOk, showOk, mtu_value)]
    /\ UNCHANGED <<distro, fs, env, prev, ncalls>>

NextLink == IsLinkUp \/ SetMtu

SpecLink == InitLink /\ [][NextLink]_vars

\* C5: set_mtu never raises, and it returns True exactly when the set
\* command succeeded, the mtu appears in the re-read `ip add show` output
\* and the link reports up within the wait; else it returns False.
C5_SetMtuResult ==
    last.op = "set_mtu" =>
        /\ last.out.kind = "return"
        /\ last.out.val \in {PyTrue, PyFalse}
        /\ last.out.val = PyTrue <=>
              /\ last.setOk
              /\ last.showOk
              /\ Contains(last.mtu, last.mtu_value)
              /\ \E i \in 1..MaxPolls : env.operstates[i] \in {"up", "UP"}

\* C6: locally and through a remote session, is_link_up returns True when
\* the operstate read is "up" or "UP" and False for any other content.
C6_IsLinkUp ==
    last.op = "is_link_up" =>
        /\ last.out.kind = "return"
        /\ last.out.val =
              IF env.operstates[1] \in {"up", "UP"} THEN PyTrue ELSE PyFalse

----------------------------------------------------------------------------
(* IP address details *)

\* _get_interfce_details: output is the parsed JSON list of the command;
\* False when it is empty, and no return statement otherwise
_get_interfce_details(version, remote_session, output) ==
    IF Len(output) = 0 THEN Ret(PyFalse) ELSE Ret(PyNone)

\* v[k] for the values _get_interfce_details returns: None and False are not
\* subscriptable
GetItem(v, k) ==
    CASE v = PyNone  -> Raise("TypeError")
      [] v = PyFalse -> Raise("TypeError")

\* o[k] where o is the outcome of the expression so far
Sub(o, k) == IF o.kind = "raise" THEN o ELSE GetItem(o.val, k)

\* the dispatch on version shared by get_ip_address and get_inet_detail:
\* both tests compare version with 4
ByVersion(version, remote_session, output, key) ==
    LET first(v) == Sub(Sub(Sub(_get_interfce_details(v, remote_session, output),
                                "addr_info"), 0), key)
        body == IF version = 4 THEN first("4")
                ELSE IF version = 4 THEN first("6")
                ELSE Raise("NWException")
    IN  IF body.kind = "raise" /\ body.exc \in {"IndexError", "KeyError"}
        THEN Ret(PyFalse)
        ELSE body

get_ip_address(version, remote_session, output) ==
    ByVersion(version, remote_session, output, "local")

get_inet_detail(version, remote_session, output) ==
    ByVersion(version, remote_session, output, "family")

Versions == {4, 5, 6}

\* an entry of addr_info: its key/value pairs
Addrs == { << <<"family", "inet">>, <<"local", "10.0.0.1">> >>,
           << <<"family", "inet6">>, <<"local", "fe80::1">> >>,
           << <<"family", "inet">> >>,
           << <<"local", "10.0.0.2">> >> }

\* number of entries of addr_info
MaxAddrs == 2

AddrLists == UNION {[1..n -> Addrs] : n \in 0..MaxAddrs}

\* what `ip -<version> -j address show <name>` prints, parsed: no interface
\* object, or one with its addr_info list
JsonOutputs == {<<>>} \cup {<<[addr_info |-> l]>> : l \in AddrLists}

InitIp ==
    /\ distro = "rhel"
    /\ fs = [p \in Paths |-> NoFile]
    /\ env \in [remote_session : Sessions, output : JsonOutputs]
    /\ last = NoCall
    /\ prev = NoCall
    /\ ncalls = 0

GetIpAddress ==
    /\ \E version \in Versions :
          last' = [op |-> "get_ip_address", version |-> version, key |-> "local",
                   out |-> get_ip_address(version, env.remote_session, env.output)]
    /\ UNCHANGED <<distro, fs, env, prev, ncalls>>

GetInetDetail ==
    /\ \E version \in Versions :
          last' = [op |-> "get_inet_detail", version |-> version, key |-> "family",
                   out |-> get_inet_detail(version, env.remote_session, env.output)]
    /\ UNCHANGED <<distro, fs, env, prev, ncalls>>

NextIp == GetIpAddress \/ GetInetDetail

SpecIp == InitIp /\ [][NextIp]_vars

HasKey(addr, k) == \E i \in 1..Len(addr) : addr[i][1] = k

Lookup(addr, k) == addr[CHOOSE i \in 1..Len(addr) : addr[i][1] = k][2]

\* the field k of the first address entry, or False when there is none
FirstField(output, k) ==
    IF Len(output) = 0 THEN PyFalse
    ELSE IF Len(output[1].addr_info) = 0 THEN PyFalse
    ELSE IF ~HasKey(output[1].addr_info[1], k) THEN PyFalse
    ELSE Lookup(output[1].addr_info[1], k)

\* C7: get_ip_address and get_inet_detail accept exactly the versions 4 and
\* 6: any other version raises NWException, and for 4 and for 6 the call
\* returns, without raising, the local (resp. family) field of the first
\* address entry, or False when the result is empty, the address list is
\* empty or the key is absent.
C7_VersionDispatch ==
    last.op \in {"get_ip_address", "get_inet_detail"} =>
        IF last.version \in {4, 6}
        THEN /\ last.out.kind = "return"
             /\ last.out.val = FirstField(env.output, last.key)
        ELSE last.out = Raise("NWException")

----------------------------------------------------------------------------
(* Host *)

\* A character of a Python string is a one-character string here; a
\* character above \xff, which a string here cannot hold, is the string of
\* its escape: U+2003 is "\\u2003".
\*
\* Whitespace: the characters str.strip() strips and \s matches, those with
\* str.isspace(): space, \t, \n, \r, \f; \v, \x1c..\x1f, \x85 and \xa0
\* (written as the characters themselves); \u1680, \u2000..\u200a, \u2028,
\* \u2029, \u202f, \u205f and \u3000.
Whitespace == {" ", "\t", "\n", "\r", "\f",
               "", "", "", "", "", "", " ",
               "\\u1680", "\\u2000", "\\u2001", "\\u2002", "\\u2003", "\\u2004",
               "\\u2005", "\\u2006", "\\u2007", "\\u2008", "\\u2009", "\\u200a",
               "\\u2028", "\\u2029", "\\u202f", "\\u205f", "\\u3000"}

\* str.strip()
RECURSIVE Strip(_)
Strip(s) ==
    IF s = <<>> THEN s
    ELSE IF Head(s) \in Whitespace THEN Strip(Tail(s))
    ELSE IF s[Len(s)] \in Whitespace THEN Strip(SubSeq(s, 1, Len(s) - 1))
    ELSE s

\* str.split(sep) for a one-character sep: the pieces between the
\* separators, empty pieces included
RECURSIVE Split(_, _)
Split(s, sep) ==
    IF \A i \in 1..Len(s) : s[i] # sep
    THEN <<s>>
    ELSE LET i == CHOOSE k \in 1..Len(s) :
                      s[k] = sep /\ \A j \in 1..(k - 1) : s[j] # sep
         IN  <<SubSeq(s, 1, i - 1)>> \o Split(SubSeq(s, i + 1, Len(s)), sep)

\* NetworkInterface(name, remote_session=session)
NetworkInterface(if_name, remote_session) ==
    [name |-> if_name, remote_session |-> remote_session]

\* Session(host, port=, user=, key=, password=): the session, or an exception
Session(ok) == IF ok THEN Ret("session") ELSE Raise("SSHError")

\* Host._connect: the session attribute, or NWException
_connect(host, port, username, connectOk) ==
    IF Truthy(host) /\ port # 0 /\ Truthy(username)
    THEN IF Session(connectOk).kind = "raise"
         THEN Raise("NWException")
         ELSE Session(connectOk)
    ELSE Ret(PyNone)

\* Host.is_remote
is_remote(session) == Truthy(session)

\* Host._populate_interfaces: ls is the outcome of session.cmd, with the
\* decoded stdout as its value; listdir is os.listdir('/sys/class/net')
_populate_interfaces(session, ls, listdir) ==
    LET names == IF is_remote(session)
                 THEN IF ls.kind = "raise"
                      THEN <<>>
                      ELSE Split(Strip(ls.val), "\n")
                 ELSE listdir
    IN  [i \in 1..Len(names) |-> NetworkInterface(names[i], session)]

\* Host.__init__
Host(host, port, username, connectOk, ls, listdir) ==
    LET c == _connect(host, port, username, connectOk)
    IN  IF c.kind = "raise"
        THEN c
        ELSE Ret([session |-> c.val,
                  interfaces |-> _populate_interfaces(c.val, ls, listdir)])

\* names of interfaces under /sys/class/net
IfNames == {<<"l", "o">>, <<"e", "t", "h", "0">>}

\* number of interfaces of a host
MaxIfaces == 2

Listings ==
    {l \in UNION {[1..n -> IfNames] : n \in 0..MaxIfaces} :
        \A i, j \in 1..Len(l) : i # j => l[i] # l[j]}

\* what `ls /sys/class/net` prints: each name followed by a newline
RECURSIVE LsOutput(_)
LsOutput(l) == IF l = <<>> THEN <<>> ELSE Head(l) \o <<"\n">> \o LsOutput(Tail(l))

InitHost ==
    /\ distro = "rhel"
    /\ fs = [p \in Paths |-> NoFile]
    /\ env \in [listing : Listings, connectOk : BOOLEAN, lsOk : BOOLEAN]
    /\ last = NoCall
    /\ prev = NoCall
    /\ ncalls = 0

NewHost ==
    /\ \E host \in {PyNone, "peer"}, port \in {0, 22}, username \in {PyNone, "root"} :
          LET ls == IF env.lsOk THEN Ret(LsOutput(env.listing)) ELSE Raise("Exception")
          IN  last' = [op |-> "Host", host |-> host, port |-> port,
                       username |-> username,
                       out |-> Host(host, port, username, env.connectOk, ls,
                                    env.listing)]
    /\ UNCHANGED <<distro, fs, env, prev, ncalls>>

NextHost == NewHost

SpecHost == InitHost /\ [][NextHost]_vars

\* C8: constructing a Host raises NWException when host, port and username
\* are given and the session cannot be established; otherwise it yields a
\* Host whose is_remote() is true iff a session was established, whose
\* interfaces are one NetworkInterface per name listed under /sys/class/net,
\* in order, each bound to the host's session, and whose interfaces list is
\* empty when the remote listing fails.
C8_HostConstruction ==
    last.op = "Host" =>
        LET attempted == Truthy(last.host) /\ last.port # 0 /\ Truthy(last.username)
        IN  IF attempted /\ ~env.connectOk
            THEN last.out = Raise("NWException")
            ELSE /\ last.out.kind = "return"
                 /\ is_remote(last.out.val.session) <=> attempted
                 /\ last.out.val.interfaces =
                       IF attempted /\ ~env.lsOk
                       THEN <<>>
                       ELSE [i \in 1..Len(env.listing) |->
                               NetworkInterface(env.listing[i],
                                                last.out.val.session)]

----------------------------------------------------------------------------
(* Disk partitions *)

\* '/dev/%s' % name
DevPath(n) == <<"/", "d", "e", "v", "/">> \o n

\* get_disks: a path for every entry of blockdevices in `lsblk --json`
get_disks(blockdevices) ==
    [i \in 1..Len(blockdevices) |-> DevPath(blockdevices[i])]

\* str.startswith
StartsWith(s, prefix) ==
    Len(prefix) <= Len(s) /\ SubSeq(s, 1, Len(prefix)) = prefix

\* s without its leading characters that are in cs
RECURSIVE LStrip(_, _)
LStrip(s, cs) ==
    IF s # <<>> /\ Head(s) \in cs THEN LStrip(Tail(s), cs) ELSE s

\* s without its trailing characters that are in cs
RECURSIVE RStrip(_, _)
RStrip(s, cs) ==
    IF s # <<>> /\ s[Len(s)] \in cs THEN RStrip(SubSeq(s, 1, Len(s) - 1), cs) ELSE s

\* a mutant of re_split: splits at every whitespace character, as
\* re.split(r'\s', line) would
RECURSIVE ReSplitEach(_)
ReSplitEach(s) ==
    IF \A i \in 1..Len(s) : s[i] \notin Whitespace
    THEN <<s>>
    ELSE LET i == CHOOSE k \in 1..Len(s) :
                      s[k] \in Whitespace /\ \A j \in 1..(k - 1) : s[j] \notin Whitespace
         IN  <<SubSeq(s, 1, i - 1)>> \o ReSplitEach(SubSeq(s, i + 1, Len(s)))

\* re.split(r'\s+', line): the pieces between the runs of whitespace; a
\* line that ends in whitespace yields a last, empty piece
RECURSIVE re_split(_)
re_split(s) ==
    IF \A i \in 1..Len(s) : s[i] \notin Whitespace
    THEN <<s>>
    ELSE LET i == CHOOSE k \in 1..Len(s) :
                      s[k] \in Whitespace /\ \A j \in 1..(k - 1) : s[j] \notin Whitespace
         IN  <<SubSeq(s, 1, i - 1)>>
                 \o re_split(LStrip(SubSeq(s, i + 1, Len(s)), Whitespace))

\* the loop that joins value[7], value[8], ... with single spaces: value[7]
\* followed by ' ' + value[7 + data] for data in range(1, len(value) - 7);
\* TypeData(value, n) is type_data after the first n - 1 iterations
RECURSIVE TypeData(_, _)
TypeData(value, n) ==
    IF n = 1 THEN value[8] ELSE TypeData(value, n - 1) \o <<" ">> \o value[7 + n]

\* the body of the loop of get_partition_info for a line that starts with
\* device (Python's value[k] is value[k + 1] here)
ParseLine(line) ==
    LET split == re_split(line)
    IN  IF Len(split) < 2
        THEN Raise("IndexError")
        ELSE LET value == IF split[2] # <<"*">>
                          THEN <<split[1], <<>>>> \o Tail(split)
                          ELSE split
                 merged == IF Len(value) > 7
                           THEN [value EXCEPT ![8] =
                                    RStrip(LStrip(TypeData(value, Len(value) - 7),
                                                  {" "}), {" "})]
                           ELSE value
             IN  IF Len(merged) < 8
                 THEN Raise("IndexError")
                 ELSE Ret([Device |-> merged[1], Boot |-> merged[2],
                           Start |-> merged[3], End |-> merged[4],
                           Sectors |-> merged[5], Size |-> merged[6],
                           Id |-> merged[7], Type |-> merged[8]])

get_partition_info(device, blockdevices, fdisk_lines) ==
    IF \E i \in 1..Len(blockdevices) : get_disks(blockdevices)[i] = device
    THEN Raise("DiskUtilsError")
    ELSE IF \E i \in 1..Len(fdisk_lines) : StartsWith(fdisk_lines[i], device)
    THEN ParseLine(fdisk_lines[CHOOSE i \in 1..Len(fdisk_lines) :
                       /\ StartsWith(fdisk_lines[i], device)
                       /\ \A j \in 1..(i - 1) : ~StartsWith(fdisk_lines[j], device)])
    ELSE Ret(PyNone)

\* lines of the fdisk output
MaxLines == 2

\* tokens of a partition's Type column
MaxTypeTokens == 3

sda == <<"s", "d", "a">>

sdb == <<"s", "d", "b">>

Blockdevices == <<sda, sdb>>

Devices == {DevPath(sda), DevPath(sda \o <<"1">>), DevPath(sda \o <<"2">>)}

RowDevices == {DevPath(sda \o <<"1">>), DevPath(sda \o <<"1", "0">>)}

TypeWords == << <<"L", "i", "n", "u", "x">>, <<"s", "w", "a", "p">>, <<"/">>,
                <<"S", "o", "l", "a", "r", "i", "s">>, <<"2">> >>

\* a row of the partition table as fdisk knows it; a line that is no row
\* (the table's heading) has kind "heading"
Rows ==
    [kind : {"row"}, dev : RowDevices, boot : BOOLEAN, ntype : 1..MaxTypeTokens]
        \cup {[kind |-> "heading", dev |-> <<>>, boot |-> FALSE, ntype |-> 0]}

\* what separates two columns of a printed line: one space, two spaces, a
\* tab, an em space (U+2003)
Gaps == {<<" ">>, <<" ", " ">>, <<"\t">>, <<"\\u2003">>}

\* the tokens joined with gap between them
RECURSIVE Joined(_, _)
Joined(toks, gap) ==
    IF Len(toks) = 1 THEN toks[1]
    ELSE toks[1] \o gap \o Joined(Tail(toks), gap)

\* the columns of a row after Device and Boot, and the row's Type tokens
Columns == << <<"2", "0">>, <<"4", "0">>, <<"2", "1">>, <<"1", "M">>, <<"8", "2">> >>

TypeTokens(r) == SubSeq(TypeWords, 1, r.ntype)

\* the line printed for a row, the columns gap apart
Printed(r, gap, nl) ==
    (IF r.kind = "heading"
     THEN Joined(<< <<"D", "e", "v", "i", "c", "e">>, <<"B", "o", "o", "t">> >>, gap)
     ELSE Joined(<<r.dev>> \o (IF r.boot THEN << <<"*">> >> ELSE <<>>)
                     \o Columns \o TypeTokens(r), gap))
    \o (IF nl THEN <<"\n">> ELSE <<>>)

\* fdisk's output: every line but possibly the last ends with a newline
FdiskLines(rows, gap, nl) ==
    [i \in 1..Len(rows) |-> Printed(rows[i], gap, i < Len(rows) \/ nl)]

InitDisk ==
    /\ distro = "rhel"
    /\ fs = [p \in Paths |-> NoFile]
    /\ env \in [rows : UNION {[1..n -> Rows] : n \in 1..MaxLines},
                gap : Gaps, nl : BOOLEAN]
    /\ last = NoCall
    /\ prev = NoCall
    /\ ncalls = 0

GetPartitionInfo ==
    /\ \E device \in Devices :
          last' = [op |-> "get_partition_info", device |-> device,
                   out |-> get_partition_info(device, Blockdevices,
                               FdiskLines(env.rows, env.gap, env.nl))]
    /\ UNCHANGED <<distro, fs, env, prev, ncalls>>

NextDisk == GetPartitionInfo

SpecDisk == InitDisk /\ [][NextDisk]_vars

\* the rows of the table whose device starts with the device asked for
Matching(device) ==
    {i \in 1..Len(env.rows) :
        env.rows[i].kind = "row" /\ StartsWith(env.rows[i].dev, device)}

FirstMatching(device) ==
    env.rows[CHOOSE i \in Matching(device) : \A j \in Matching(device) : i <= j]

\* C9: for a device that get_disks() lists, get_partition_info raises
\* DiskUtilsError; for any other device it returns the record of the first
\* fdisk line that starts with the device: Device, Start, End, Sectors, Size
\* and Id are that line's tokens whether or not the boot flag is there, Boot
\* is "*" or empty, and Type is the remaining tokens joined by one space.
C9_PartitionRecord ==
    last.op = "get_partition_info" =>
        IF last.device \in {DevPath(sda), DevPath(sdb)}
        THEN last.out = Raise("DiskUtilsError")
        ELSE /\ last.out.kind = "return"
             /\ Matching(last.device) # {} =>
                   LET r == FirstMatching(last.device)
                   IN  last.out.val =
                          [Device |-> r.dev,
                           Boot |-> IF r.boot THEN <<"*">> ELSE <<>>,
                           Start |-> Columns[1], End |-> Columns[2],
                           Sectors |-> Columns[3], Size |-> Columns[4],
                           Id |-> Columns[5],
                           Type |-> Joined(TypeTokens(r), <<" ">>)]

C9_Witness ==
    /\ last.op = "get_partition_info"
    /\ last.device = DevPath(sda \o <<"1">>)
    /\ Len(env.rows) = 2
    /\ env.rows[1].kind = "heading"
    /\ env.rows[2] = [kind |-> "row", dev |-> DevPath(sda \o <<"1">>),
                      boot |-> FALSE, ntype |-> 2]
    /\ env.gap = <<"\\u2003">>
    /\ last.out.kind = "return"
    /\ last.out.val.Boot = <<>>
    /\ last.out.val.Type = <<"L", "i", "n", "u", "x", " ", "s", "w", "a", "p">>

====
